---- MODULE Spec2Model ----
(***************************************************************************)
(* Concern tagging (src/app.py): one press of "Analyze" validates the      *)
(* text, then evaluate_report asks the language model one question per     *)
(* entry of the prompts dictionary, normalises each answer to              *)
(* True / False / 'unable', updates a progress bar, and main shows the     *)
(* categories whose verdict is True.                                       *)
(*                                                                         *)
(* Strings the code transforms (model answers, category keys) are tuples   *)
(* of one-character strings.  The user's text is represented by its        *)
(* length: the code reads only its truthiness and len() before handing it  *)
(* unchanged to the prompt template.                                       *)
(***************************************************************************)
EXTENDS Integers, Sequences, FiniteSets

\* ------------------------------------------------------------------ bounds

\* The first NumCats entries of the prompts dictionary are modelled.
NumCats == 7
\* Text lengths tried around the limit: MAX_LEN - NearLimit + 1 .. MAX_LEN + NearLimit.
NearLimit == 1
\* Longest run of padding characters put before and after a candidate answer.
MaxPad == 2
\* Longest answer enumerated exhaustively over ShortAlphabet.
MaxShort == 4

\* --------------------------------------------------------- program constants

\* main: len(user_input) <= 1000
MAX_LEN == 1000
\* display_metric_rows: cols_per_row = 6
cols_per_row == 6

\* ------------------------------------------------------------ Python values

PyTrue == "Py_True"
PyFalse == "Py_False"
Unable == "unable"
Verdicts == {PyTrue, PyFalse, Unable}

\* ------------------------------------------------------------- str methods

Lowercase ==
    <<"a","b","c","d","e","f","g","h","i","j","k","l","m",
      "n","o","p","q","r","s","t","u","v","w","x","y","z">>
Uppercase ==
    <<"A","B","C","D","E","F","G","H","I","J","K","L","M",
      "N","O","P","Q","R","S","T","U","V","W","X","Y","Z">>

IsUpper(c) == \E i \in 1..26 : Uppercase[i] = c
IsLower(c) == \E i \in 1..26 : Lowercase[i] = c
IsLetter(c) == IsUpper(c) \/ IsLower(c)

ToLower(c) ==
    IF IsUpper(c) THEN Lowercase[CHOOSE i \in 1..26 : Uppercase[i] = c] ELSE c
ToUpper(c) ==
    IF IsLower(c) THEN Uppercase[CHOOSE i \in 1..26 : Lowercase[i] = c] ELSE c

\* The characters str.strip() removes.
IsSpace(c) == c \in {" ", "\t", "\n", "\r", "\f"}

RECURSIVE LStrip(_)
LStrip(s) ==
    IF s = <<>> THEN s
    ELSE IF IsSpace(Head(s)) THEN LStrip(Tail(s)) ELSE s

RECURSIVE RStrip(_)
RStrip(s) ==
    IF s = <<>> THEN s
    ELSE IF IsSpace(s[Len(s)]) THEN RStrip(SubSeq(s, 1, Len(s) - 1)) ELSE s

\* A strip that forgets the trailing side.
StripLeadingOnly(s) == LStrip(s)

\* str.strip()
Strip(s) == RStrip(LStrip(s))

\* str.lower()
Lower(s) == [i \in 1..Len(s) |-> ToLower(s[i])]

\* str.replace(old, new) for one-character old and new.
Replace(s, old, new) == [i \in 1..Len(s) |-> IF s[i] = old THEN new ELSE s[i]]

\* str.title(): a letter is upper-cased unless it follows a letter.
Title(s) ==
    [i \in 1..Len(s) |->
        IF IsLetter(s[i])
        THEN IF i > 1 /\ IsLetter(s[i - 1]) THEN ToLower(s[i]) ELSE ToUpper(s[i])
        ELSE s[i]]

\* -------------------------------------------------------------- the catalog

\* The keys of the prompts dictionary, in the order the literal lists them.
PromptKeys == <<
    <<"a","n","x","i","e","t","y">>,
    <<"d","e","p","r","e","s","s","i","o","n">>,
    <<"o","v","e","r","t","h","i","n","k","i","n","g">>,
    <<"s","t","r","e","s","s">>,
    <<"n","e","g","a","t","i","v","e","_","t","h","i","n","k","i","n","g">>,
    <<"l","o","n","e","l","i","n","e","s","s">>,
    <<"s","e","l","f","_","i","m","p","r","o","v","e","m","e","n","t">>,
    <<"a","n","g","e","r">>,
    <<"g","r","i","e","f">>,
    <<"s","l","e","e","p">>,
    <<"o","c","d">>,
    <<"s","e","x","u","a","l","_","d","y","s","f","u","n","c","t","i","o","n">>,
    <<"b","i","p","o","l","a","r">>,
    <<"a","d","d","i","c","t","i","o","n">> >>

\* Iterating prompts yields its keys in insertion order.
prompts == SubSeq(PromptKeys, 1, NumCats)

\* total_conditions = len(prompts)
total_conditions == Len(prompts)

\* ------------------------------------------------------------------- dicts
\* A dict is the sequence of its (key, value) entries in insertion order.

DictKeys(d) == [i \in 1..Len(d) |-> d[i].key]
DictHas(d, k) == \E i \in 1..Len(d) : d[i].key = k
DictGet(d, k) == d[CHOOSE i \in 1..Len(d) : d[i].key = k].value

\* An assignment that puts the new entry first.
DictSetFront(d, k, v) == <<[key |-> k, value |-> v]>> \o d

\* d[k] = v: an existing key keeps its place, a new key goes last.
DictSet(d, k, v) ==
    IF DictHas(d, k)
    THEN [i \in 1..Len(d) |-> IF d[i].key = k THEN [key |-> k, value |-> v] ELSE d[i]]
    ELSE Append(d, [key |-> k, value |-> v])

\* ---------------------------------------------------------------- the model

VARIABLES
    pc,                  \* where the script is
    user_input,          \* len(user_input)
    idx,                 \* enumerate index of the loop in evaluate_report
    evaluation_results,  \* evaluate_report's dict
    progress_bar,        \* the value the progress bar shows
    progress_log,        \* every progress_bar.progress(...) call made, in order
    results,             \* main's results
    detected,            \* main's detected
    screen,              \* what main has written to the page, in order
    oracle_calls,        \* every chain.run(...) issued, in order
    inflight,            \* positions in oracle_calls not yet answered
    response,            \* the raw answer of the latest chain.run
    failed_at            \* 1-based position of the category whose call raised, 0 if none

vars == <<pc, user_input, idx, evaluation_results, progress_bar, progress_log,
          results, detected, screen, oracle_calls, inflight, response, failed_at>>

\* An optional value: None is the empty tuple, a value x is <<x>>.
None == <<>>
Some(x) == <<x>>

\* One thing written to the page.
Element(kind) == [kind |-> kind, row |-> 0, col |-> 0, label |-> <<>>]

\* A progress value completed / total.
Frac(completed, total) == [completed |-> completed, total |-> total]

\* The text lengths the user may submit.
TextLens == {0, 1} \cup ((MAX_LEN - NearLimit + 1)..(MAX_LEN + NearLimit))

\* Answers the model may give in the full script.
OracleAnswers == {
    <<"T","r","u","e">>,
    <<"F","a","l","s","e">>,
    <<" ","t","r","u","e","\n">>,
    <<>>,
    <<"y","e","s">> }

Init ==
    /\ pc = "idle"
    /\ user_input = 0
    /\ idx = 0
    /\ evaluation_results = <<>>
    /\ progress_bar = None
    /\ progress_log = <<>>
    /\ results = None
    /\ detected = None
    /\ screen = <<>>
    /\ oracle_calls = <<>>
    /\ inflight = {}
    /\ response = None
    /\ failed_at = 0

\* --------------------------------------------------------------------- main

\* A check that lets the empty text through.
AlwaysTruthy(n) == TRUE

\* if user_input: a str is truthy when it is not empty.
Truthy(n) == n # 0

\* A limit that is off by one.
WithinLimitPlusOne(n) == n <= MAX_LEN + 1

\* if len(user_input) <= 1000
WithinLimit(n) == n <= MAX_LEN

\* The user types a text of length n and presses "Analyze": main up to the
\* first model call.
Analyze(n) ==
    /\ pc = "idle"
    /\ user_input' = n
    /\ IF ~Truthy(n)
       THEN /\ screen' = <<Element("warning: Please enter some text to analyze.")>>
            /\ pc' = "rejected"
            /\ UNCHANGED <<evaluation_results, progress_bar>>
       ELSE IF ~WithinLimit(n)
       THEN /\ screen' = <<Element("warning: Please enter less than 1000 words.")>>
            /\ pc' = "rejected"
            /\ UNCHANGED <<evaluation_results, progress_bar>>
       ELSE \* evaluate_report(user_input, llm) starts
            /\ evaluation_results' = <<>>
            /\ progress_bar' = Some(Frac(0, 1))
            /\ pc' = "loop"
            /\ UNCHANGED screen
    /\ UNCHANGED <<idx, progress_log, results, detected, oracle_calls, inflight,
                   response, failed_at>>

\* ---------------------------------------------------------- evaluate_report

\* An iteration that walks the dictionary backwards.
EnumerateReversed(i) == prompts[total_conditions - i]

\* for idx, condition in enumerate(prompts): the condition paired with idx.
Enumerate(i) == prompts[i + 1]

\* evaluate_condition up to chain.run(text=text): the query for the current
\* condition, carrying the text as given, goes to the model.
CallOracle ==
    /\ pc = "loop"
    /\ idx < total_conditions
    /\ oracle_calls' = Append(oracle_calls, [condition |-> Enumerate(idx), text |-> user_input])
    /\ inflight' = inflight \cup {Len(oracle_calls) + 1}
    /\ pc' = "awaiting"
    /\ UNCHANGED <<user_input, idx, evaluation_results, progress_bar, progress_log,
                   results, detected, screen, response, failed_at>>

\* evaluate_condition after chain.run returned resp: strip, lower, compare.
Normalize(resp) ==
    LET r == Lower(Strip(resp))
    IN  IF r = <<"t","r","u","e">> THEN PyTrue
        ELSE IF r = <<"f","a","l","s","e">> THEN PyFalse
        ELSE Unable

\* response = chain.run(text=text): the model answers resp.
OracleReturn(resp) ==
    /\ pc = "awaiting"
    /\ response' = Some(resp)
    /\ inflight' = inflight \ {Len(oracle_calls)}
    /\ pc' = "answered"
    /\ UNCHANGED <<user_input, idx, evaluation_results, progress_bar, progress_log,
                   results, detected, screen, oracle_calls, failed_at>>

\* evaluate_condition normalises the answer and returns; evaluate_report
\* stores the verdict under the condition.
RecordVerdict ==
    /\ pc = "answered"
    /\ evaluation_results' =
          DictSet(evaluation_results, Enumerate(idx), Normalize(response[1]))
    /\ pc' = "progress"
    /\ UNCHANGED <<user_input, idx, progress_bar, progress_log, results, detected,
                   screen, oracle_calls, inflight, response, failed_at>>

\* A handler that turns a failed call into 'unable' and goes on.
OracleRaiseSwallowed ==
    /\ pc = "awaiting"
    /\ failed_at' = idx + 1
    /\ inflight' = inflight \ {Len(oracle_calls)}
    /\ evaluation_results' = DictSet(evaluation_results, Enumerate(idx), Unable)
    /\ pc' = "progress"
    /\ UNCHANGED <<user_input, idx, progress_bar, progress_log, results, detected,
                   screen, oracle_calls, response>>

\* chain.run raises: nothing catches the exception, so it leaves
\* evaluate_condition, evaluate_report and main; no statement after the call runs.
OracleRaise ==
    /\ pc = "awaiting"
    /\ failed_at' = idx + 1
    /\ inflight' = inflight \ {Len(oracle_calls)}
    /\ pc' = "raised"
    /\ UNCHANGED <<user_input, idx, evaluation_results, progress_bar, progress_log,
                   results, detected, screen, oracle_calls, response>>

\* A progress value computed from idx instead of idx + 1.
ProgressValueFromIdx(i) == Frac(i, total_conditions)

\* (idx + 1) / total_conditions
ProgressValue(i) == Frac(i + 1, total_conditions)

\* progress_bar.progress((idx + 1) / total_conditions), then the loop goes on
\* or ends.
Progress ==
    /\ pc = "progress"
    /\ progress_bar' = Some(ProgressValue(idx))
    /\ progress_log' = Append(progress_log, ProgressValue(idx))
    /\ idx' = idx + 1
    /\ pc' = IF idx + 1 < total_conditions THEN "loop" ELSE "return"
    /\ UNCHANGED <<user_input, evaluation_results, results, detected, screen,
                   oracle_calls, inflight, response, failed_at>>

\* return evaluation_results, assigned to main's results.
Return ==
    /\ pc = "return"
    /\ results' = Some(evaluation_results)
    /\ pc' = "display"
    /\ UNCHANGED <<user_input, idx, evaluation_results, progress_bar, progress_log,
                   detected, screen, oracle_calls, inflight, response, failed_at>>

\* ------------------------------------------------------------------ display

\* A filter that also keeps the entries that are not False.
DetectedNotFalse(d) ==
    LET hits == SelectSeq(d, LAMBDA e : e.value # PyFalse)
    IN  [i \in 1..Len(hits) |-> Title(Replace(hits[i].key, "_", " "))]

\* [k.replace("_", " ").title() for k, v in results.items() if v == True]
Detected(d) ==
    LET hits == SelectSeq(d, LAMBDA e : e.value = PyTrue)
    IN  [i \in 1..Len(hits) |-> Title(Replace(hits[i].key, "_", " "))]

\* display_metric_rows: the cells filled, row by row, column by column.
MetricCells(concerns) ==
    LET num_rows == (Len(concerns) + cols_per_row - 1) \div cols_per_row
        slots == [s \in 1..(num_rows * cols_per_row) |->
                     [i |-> (s - 1) \div cols_per_row, j |-> (s - 1) % cols_per_row]]
        filled == SelectSeq(slots, LAMBDA c : c.i * cols_per_row + c.j < Len(concerns))
    IN  [n \in 1..Len(filled) |->
            [kind |-> "metric", row |-> filled[n].i, col |-> filled[n].j,
             label |-> concerns[filled[n].i * cols_per_row + filled[n].j + 1]]]

\* What main writes for a results dict.
Render(d) ==
    <<Element("subheader: Analysis Results")>>
    \o (IF Detected(d) # <<>>
        THEN MetricCells(Detected(d))
        ELSE <<Element("write: No concerns detected.")>>)
    \o <<Element("markdown: ---"), Element("markdown: Disclaimer")>>

\* main after evaluate_report returned.
Display ==
    /\ pc = "display"
    /\ detected' = Some(Detected(results[1]))
    /\ screen' = Render(results[1])
    /\ pc' = "done"
    /\ UNCHANGED <<user_input, idx, evaluation_results, progress_bar, progress_log,
                   results, oracle_calls, inflight, response, failed_at>>

\* The script has ended (rejected, raised or done); the next interaction runs
\* it again from the top.
Rerun ==
    /\ pc \in {"rejected", "raised", "done"}
    /\ pc' = "idle"
    /\ user_input' = 0
    /\ idx' = 0
    /\ evaluation_results' = <<>>
    /\ progress_bar' = None
    /\ progress_log' = <<>>
    /\ results' = None
    /\ detected' = None
    /\ screen' = <<>>
    /\ oracle_calls' = <<>>
    /\ inflight' = {}
    /\ response' = None
    /\ failed_at' = 0

Next ==
    \/ \E n \in TextLens : Analyze(n)
    \/ CallOracle
    \/ \E resp \in OracleAnswers : OracleReturn(resp)
    \/ RecordVerdict
    \/ OracleRaise
    \/ Progress
    \/ Return
    \/ Display
    \/ Rerun

Spec == Init /\ [][Next]_vars

\* ------------------------------------------- the normalisation on its own
\* One call of evaluate_condition after chain.run has answered, started from
\* every answer below: the script stands at its first model call.

\* Characters put around a candidate answer: whitespace and one that is not.
PadChars == {" ", "\n", "."}
Pads == UNION {[1..k -> PadChars] : k \in 0..MaxPad}

\* Every way to write word in upper and lower case.
CaseVariants(word) ==
    {s \in [1..Len(word) -> {word[i] : i \in 1..Len(word)}
                            \cup {ToUpper(word[i]) : i \in 1..Len(word)}] :
        \A i \in 1..Len(word) : s[i] \in {word[i], ToUpper(word[i])}}

NearMisses == {
    <<>>,
    <<"t","r","u">>,
    <<"t","r","u","e","e">>,
    <<"t"," ","r","u","e">>,
    <<"f","a","l","s">>,
    <<"y","e","s">>,
    <<"u","n","a","b","l","e">>,
    <<"t","r","u","e"," ","f","a","l","s","e">> }

Cores == CaseVariants(<<"t","r","u","e">>) \cup CaseVariants(<<"f","a","l","s","e">>)
         \cup NearMisses

ShortAlphabet == {"t", "r", "u", "e", "T", "R", "U", "E", " "}
ShortAnswers == UNION {[1..k -> ShortAlphabet] : k \in 0..MaxShort}


\* The answer is a core between two pads, or any short string.
NormInit ==
    /\ pc = "answered"
    /\ user_input = 1
    /\ idx = 0
    /\ evaluation_results = <<>>
    /\ progress_bar = Some(Frac(0, 1))
    /\ progress_log = <<>>
    /\ results = None
    /\ detected = None
    /\ screen = <<>>
    /\ oracle_calls = <<[condition |-> Enumerate(0), text |-> 1]>>
    /\ inflight = {}
    /\ \/ \E a \in Pads, c \in Cores, b \in Pads : response = Some(a \o c \o b)
       \/ \E resp \in ShortAnswers : response = Some(resp)
    /\ failed_at = 0

NormNext == RecordVerdict

NormSpec == NormInit /\ [][NormNext]_vars

\* ------------------------------------------------------------------- claims

Range(s) == {s[i] : i \in 1..Len(s)}
Completed == pc \in {"return", "display", "done"}

\* resp is tok, in any mix of upper and lower case, between two runs of
\* whitespace.
IsPaddedToken(resp, tok) ==
    \E a \in 0..Len(resp) :
        /\ a + Len(tok) <= Len(resp)
        /\ \A i \in 1..a : IsSpace(resp[i])
        /\ \A i \in 1..Len(tok) : resp[a + i] \in {tok[i], ToUpper(tok[i])}
        /\ \A i \in (a + Len(tok) + 1)..Len(resp) : IsSpace(resp[i])

\* C1: once evaluate_report has returned for a non-empty text within the
\* limit, the returned dict's keys are the catalog's keys, each once, in
\* catalog order.
C1_KeysAreCatalog ==
    (pc \in {"display", "done"}) =>
        /\ results # None
        /\ DictKeys(results[1]) = prompts
        /\ \A i, j \in 1..Len(results[1]) :
              results[1][i].key = results[1][j].key => i = j
        /\ \A i \in 1..Len(results[1]) : results[1][i].value \in Verdicts
        /\ Truthy(user_input) /\ WithinLimit(user_input)

C1_Witness ==
    /\ pc = "display"
    /\ user_input = MAX_LEN
    /\ Len(results[1]) = NumCats
    /\ results[1][NumCats].value = Unable
    /\ results[1][1].value = PyTrue

\* C2: the verdict evaluate_condition gives for a raw answer is True exactly
\* when the answer is "true" in any letter case between whitespace, False
\* exactly when it is "false" so written, and 'unable' for every other
\* answer, the empty one included.
C2_Normalization ==
    (pc = "progress") =>
        LET v == evaluation_results[idx + 1].value
            r == response[1]
        IN  /\ v \in Verdicts
            /\ (v = PyTrue) <=> IsPaddedToken(r, <<"t","r","u","e">>)
            /\ (v = PyFalse) <=> IsPaddedToken(r, <<"f","a","l","s","e">>)
            /\ (v = Unable) <=> /\ ~IsPaddedToken(r, <<"t","r","u","e">>)
                                /\ ~IsPaddedToken(r, <<"f","a","l","s","e">>)
            /\ (r = <<>>) => (v = Unable)

C2_Witness ==
    /\ pc = "progress"
    /\ response = Some(<<" ","\n","F","a","L","s","E","\n">>)
    /\ evaluation_results[1].value = PyFalse

\* C3: the progress bar is updated once per finished iteration, the k-th
\* update carries k / total, a full run makes exactly total updates, and the
\* k-th update comes after the k-th verdict is stored and before the
\* (k+1)-th model call.
C3_Progress ==
    /\ Len(progress_log) = idx
    /\ \A k \in 1..Len(progress_log) :
          /\ progress_log[k] = Frac(k, total_conditions)
          /\ k <= Len(evaluation_results)
          /\ evaluation_results[k].key = prompts[k]
    /\ Len(oracle_calls) <= Len(progress_log) + 1
    /\ (pc = "progress") => Len(evaluation_results) = Len(progress_log) + 1
    /\ Completed =>
          /\ Len(progress_log) = total_conditions
          /\ progress_bar = Some(Frac(total_conditions, total_conditions))

C3_Witness ==
    /\ pc = "done"
    /\ Len(progress_log) = NumCats
    /\ progress_log[1].completed = 1
    /\ progress_log[NumCats].completed = NumCats

\* C4: Analyze on the empty text ends in the warning, with no model call
\* made and no result produced.
C4_EmptyRejected ==
    (pc # "idle" /\ user_input = 0) =>
        /\ pc = "rejected"
        /\ oracle_calls = <<>>
        /\ inflight = {}
        /\ evaluation_results = <<>>
        /\ results = None
        /\ detected = None
        /\ screen = <<Element("warning: Please enter some text to analyze.")>>

C4_Witness == pc = "rejected" /\ user_input = 0

\* C5: Analyze on a text longer than MAX_LEN ends in the warning, with no
\* model call made and no result produced; every query that is sent carries
\* the text as typed, never a shortened one.
C5_TooLongRejected ==
    /\ (user_input > MAX_LEN) =>
          /\ pc = "rejected"
          /\ oracle_calls = <<>>
          /\ inflight = {}
          /\ evaluation_results = <<>>
          /\ results = None
          /\ detected = None
          /\ screen = <<Element("warning: Please enter less than 1000 words.")>>
    /\ \A i \in 1..Len(oracle_calls) :
          oracle_calls[i].text = user_input /\ oracle_calls[i].text <= MAX_LEN

C5_Witness == pc = "rejected" /\ user_input = MAX_LEN + 1

\* C6: once the model call for category k has raised, the run is over with
\* the exception: k calls were made and no more, the verdicts stored before
\* k reach neither main's results nor the page, and k has no verdict.
C6_FailFast ==
    (failed_at # 0) =>
        /\ pc = "raised"
        /\ Len(oracle_calls) = failed_at
        /\ inflight = {}
        /\ results = None
        /\ detected = None
        /\ screen = <<>>
        /\ Len(progress_log) = failed_at - 1
        /\ DictKeys(evaluation_results) = SubSeq(prompts, 1, failed_at - 1)
        /\ ~DictHas(evaluation_results, prompts[failed_at])

C6_Witness ==
    /\ pc = "raised"
    /\ failed_at = 3
    /\ Len(evaluation_results) = 2
    /\ evaluation_results[1].value = PyTrue

\* C7: when the model call for category k fails, the batch still completes
\* and k's verdict is 'unable'.
C7_ContinueOnError ==
    (failed_at # 0) =>
        /\ pc # "raised"
        /\ DictHas(evaluation_results, prompts[failed_at])
        /\ DictGet(evaluation_results, prompts[failed_at]) = Unable

\* C8: the i-th model call is for the i-th catalog category, no category is
\* asked twice and a full run asks each one; at most one call is unanswered,
\* and it was issued only after every earlier call was answered and its
\* verdict stored.
C8_Sequential ==
    /\ \A i \in 1..Len(oracle_calls) : oracle_calls[i].condition = prompts[i]
    /\ \A i, j \in 1..Len(oracle_calls) :
          oracle_calls[i].condition = oracle_calls[j].condition => i = j
    /\ Len(oracle_calls) <= total_conditions
    /\ Cardinality(inflight) <= 1
    /\ (inflight # {}) =>
          /\ pc = "awaiting"
          /\ inflight = {Len(oracle_calls)}
          /\ DictKeys(evaluation_results) = SubSeq(prompts, 1, Len(oracle_calls) - 1)
    /\ (pc = "awaiting") => inflight # {}
    /\ Len(oracle_calls) <= Len(evaluation_results) + 1
    /\ Completed => Len(oracle_calls) = total_conditions

C8_Witness ==
    /\ pc = "awaiting"
    /\ Len(oracle_calls) = 3
    /\ inflight = {3}
    /\ Len(evaluation_results) = 2

HasUnable(d) == \E i \in 1..Len(d) : d[i].value = Unable

\* Every result dict whose verdicts are all True or False.
DefiniteResults ==
    {[i \in 1..total_conditions |-> [key |-> prompts[i], value |-> f[i]]] :
        f \in [1..total_conditions -> {PyTrue, PyFalse}]}

\* C9: what a completed batch with an 'unable' verdict shows is shown by no
\* completed batch whose verdicts are all True or False.
C9_IndeterminateVisible ==
    (pc = "done" /\ HasUnable(results[1])) =>
        \A d \in DefiniteResults : Render(d) # screen

\* The lists main derives from a completed result dict.
AggregationView(d) == <<Detected(d)>>

\* C10: the lists derived from a completed result dict together hold every
\* category.
C10_Partition ==
    (pc = "done") =>
        \A i \in 1..Len(results[1]) :
            \E n \in 1..Len(AggregationView(results[1])) :
                Title(Replace(results[1][i].key, "_", " "))
                    \in Range(AggregationView(results[1])[n])

\* The part of C10 about the list main shows: detected holds the labels of
\* exactly the categories whose verdict is True, in catalog order, and the
\* metric cells on the page are those labels in that order.
DetectedIsPresent ==
    (pc = "done") =>
        LET present == SelectSeq(prompts,
                LAMBDA k : DictGet(results[1], k) = PyTrue)
            cells == SelectSeq(screen, LAMBDA e : e.kind = "metric")
        IN  /\ Len(detected[1]) = Len(present)
            /\ \A n \in 1..Len(present) :
                  detected[1][n] = Title(Replace(present[n], "_", " "))
            /\ [n \in 1..Len(cells) |-> cells[n].label] = detected[1]
            /\ \A n \in 1..Len(cells) :
                  cells[n].row * cols_per_row + cells[n].col = n - 1

DetectedIsPresent_Witness ==
    /\ pc = "done"
    /\ Len(detected[1]) = NumCats
    /\ \E n \in 1..Len(screen) : screen[n].kind = "metric" /\ screen[n].row = 1

====
